---- MODULE Spec2Model ----
(***************************************************************************)
(* A model of mf.py, the media fixer: the plan compiler                    *)
(* (probe_streams, detect_bit_depth, build_ffmpeg_cmd) as operators, and   *)
(* the execution engine of main() (job preparation, the worker pool        *)
(* running transcode_file, the as_completed finalization loop and the      *)
(* end-of-run summary) as a state machine over a small file system.        *)
(***************************************************************************)
EXTENDS Integers, Sequences, FiniteSets, TLC

VARIABLES
    args,           \* the parsed command line (argparse namespace), read-only
    env,            \* the tools shutil.which finds; whether the NVENC query works
    files,          \* the discovered media files, in discovery order
    probe,          \* what ffprobe answers for each discovered file
    fs,             \* the file system: existing path -> content
    tfiles,         \* sources that got a job            (main, tfiles)
    out_paths,      \* their temp destination paths      (main, out_paths)
    fut,            \* per job: state of its future
    outcome,        \* per job: how the main loop resolved it
    errors,         \* the shared error list
    success_count,  \* main's success counter
    main_pc,        \* position of the main thread
    cur,            \* job whose finalization is between unlink and rename
    exit_code,      \* process exit status, -1 while running
    summary,        \* whether the success/total summary line was printed
    logfile,        \* content written to the error log file
    plan,           \* result of one build_ffmpeg_cmd call (plan compiler runs)
    nvenc_formats,  \* the module global _NVENC_FORMATS
    queries,        \* how many times the NVENC format query was issued
    call            \* per job: its call of nvenc_supported_pix_fmts

\* the state of the hardware-capability cache and of the calls that use it
cachevars == <<nvenc_formats, queries, call>>

vars == <<args, env, files, probe, fs, tfiles, out_paths, fut, outcome, errors,
          success_count, main_pc, cur, exit_code, summary, logfile, plan,
          cachevars>>

(***************************************************************************)
(* Bounds of the model.                                                    *)
(***************************************************************************)
MaxFiles == 2       \* discovered files per run
MaxStreams == 3     \* streams per probed catalog in plan-compiler runs

(***************************************************************************)
(* String helpers, tabulated over the strings the model uses.              *)
(***************************************************************************)
\* str.lower()
Lower(s) ==
    CASE s = "ENG" -> "eng"
      [] s = "FRE" -> "fre"
      [] s = "MKV" -> "mkv"
      [] s = ".MKV" -> ".mkv"
      [] OTHER -> s

\* str.startswith(".")
StartsWithDot(s) == s \in {".mkv", ".mp4", ".webm", ".avi", ".MKV"}

\* str.lstrip(".")
LStripDot(s) ==
    CASE s = ".mkv" -> "mkv"
      [] s = ".mp4" -> "mp4"
      [] s = ".webm" -> "webm"
      [] s = ".avi" -> "avi"
      [] s = ".MKV" -> "MKV"
      [] OTHER -> s

\* f".{s}"
DotPrefix(s) ==
    CASE s = "mkv" -> ".mkv"
      [] s = "mp4" -> ".mp4"
      [] s = "webm" -> ".webm"
      [] s = "avi" -> ".avi"
      [] s = "MKV" -> ".MKV"

(***************************************************************************)
(* Paths.  A path is root/parent/name, the name being `tmp` leading        *)
(* "_tmp_" markers, a stem and a suffix.                                   *)
(***************************************************************************)
NoPath == [root |-> "", parent |-> "", tmp |-> 0, stem |-> "", ext |-> ""]

\* "_tmp_" + fp.name
TmpFilename(fp) == [fp EXCEPT !.tmp = @ + 1]

\* Path.with_suffix(new_ext)
WithSuffix(p, new_ext) == [p EXCEPT !.ext = new_ext]

(***************************************************************************)
(* Stream catalog: probe_streams.                                          *)
(***************************************************************************)
NoTag == "<no language tag>"
NoCodec == "<none>"

ProbeFailed == [ok |-> FALSE, streams |-> <<>>]

probe_streams(raw) ==
    IF ~raw.ok THEN <<>>
    ELSE [i \in 1..Len(raw.streams) |->
            [index |-> raw.streams[i].index,
             codec_type |-> raw.streams[i].codec_type,
             codec_name |-> raw.streams[i].codec_name,
             language |-> IF raw.streams[i].tag = NoTag THEN "und"
                          ELSE Lower(raw.streams[i].tag)]]

(***************************************************************************)
(* Command-plan tokens.  Every token is a record of one shape: a literal   *)
(* string, a string with a number in it (f"0:{idx}", f"-c:s:{n}",          *)
(* str(quality)) or a path.                                                *)
(***************************************************************************)
Tok(s) == [s |-> s, n |-> -1, path |-> NoPath]
NumTok(s, n) == [s |-> s, n |-> n, path |-> NoPath]
PathTok(p) == [s |-> "", n |-> -1, path |-> p]

(***************************************************************************)
(* nvenc_supported_pix_fmts and the global it caches its answer in.        *)
(***************************************************************************)
\* _NVENC_FORMATS = None
NotCached == [cached |-> FALSE, fmts |-> {}]
Cached(fmts) == [cached |-> TRUE, fmts |-> fmts]

\* what the query "ffmpeg -h encoder=hevc_nvenc" leaves in fmts: the formats
\* of the "Supported pixel formats" line, or {"nv12"} from the except branch
NvencQuery(e) == IF e.nvenc_query THEN {"nv12", "p010le"} ELSE {"nv12"}

\* one whole call of nvenc_supported_pix_fmts with no other thread running:
\* the cache and the number of queries after it
nvenc_supported_pix_fmts(cache, q, e) ==
    IF cache.cached
    THEN [formats |-> cache, queries |-> q]
    ELSE [formats |-> Cached(NvencQuery(e)), queries |-> q + 1]

(***************************************************************************)
(* detect_bit_depth: returns (False, False, "nv12") under force_8bit and   *)
(* otherwise reaches exit(0) on line 146, which raises SystemExit.         *)
(***************************************************************************)
detect_bit_depth(force_8bit, force_10bit) ==
    IF force_8bit
    THEN [exit |-> FALSE, is_10bit |-> FALSE, is_12bit |-> FALSE, chosen_fmt |-> "nv12"]
    ELSE [exit |-> TRUE, is_10bit |-> FALSE, is_12bit |-> FALSE, chosen_fmt |-> ""]

(***************************************************************************)
(* build_ffmpeg_cmd.                                                       *)
(***************************************************************************)
H264Names == {"h264", "libx264"}
HevcNames == {"hevc", "h265", "libx265"}

\* f"format={chosen_fmt}"
FormatFilter(fmt) ==
    CASE fmt = "nv12" -> "format=nv12"
      [] fmt = "p010le" -> "format=p010le"

\* ",".join(vf_filters); no branch collects more than one filter
JoinFilters(vf_filters) == vf_filters[1]

\* (["-vf", ",".join(vf_filters)] if vf_filters else [])
VfArgs(vf_filters) ==
    IF vf_filters # <<>> THEN <<Tok("-vf"), Tok(JoinFilters(vf_filters))>> ELSE <<>>

\* hw_type: "Detect GPU type"
HwType(use_gpu, e) ==
    IF use_gpu /\ e.nvidia_smi THEN "nvidia"
    ELSE IF use_gpu /\ e.vainfo THEN "intel"
    ELSE "cpu"

\* "Video handling": the tokens added for a requested video re-encode
VideoArgs(requested, hw_type, quality, d) ==
    IF hw_type = "nvidia" THEN
        LET codec_to_use == IF requested \in H264Names THEN "h264_nvenc"
                            ELSE IF requested \in HevcNames THEN "hevc_nvenc"
                            ELSE requested
            vf_filters == IF d.chosen_fmt # "" THEN <<FormatFilter(d.chosen_fmt)>> ELSE <<>>
        IN  VfArgs(vf_filters) \o <<Tok("-c:v"), Tok(codec_to_use)>>
    ELSE IF hw_type = "intel" THEN
        LET codec_to_use == IF requested \in H264Names THEN "h264_vaapi"
                            ELSE IF requested \in HevcNames THEN "hevc_vaapi"
                            ELSE requested
            vf_filters == IF requested \in H264Names THEN <<"format=nv12,hwupload">>
                          ELSE IF requested \in HevcNames THEN
                               IF d.is_10bit \/ d.is_12bit THEN <<"format=p010,hwupload">>
                               ELSE <<"format=nv12,hwupload">>
                          ELSE <<>>
        IN  VfArgs(vf_filters) \o <<Tok("-c:v"), Tok(codec_to_use)>>
            \o (IF quality > 0 THEN <<Tok("-global_quality"), NumTok("", quality)>> ELSE <<>>)
    ELSE
        IF requested \in H264Names THEN
            LET vf_filters == IF d.is_10bit \/ d.is_12bit THEN <<"format=yuv420p">> ELSE <<>>
            IN  VfArgs(vf_filters) \o <<Tok("-c:v"), Tok("libx264")>>
                \o (IF quality > 0 THEN <<Tok("-crf"), NumTok("", quality)>> ELSE <<>>)
        ELSE IF requested \in HevcNames THEN
            <<Tok("-c:v"), Tok("libx265")>>
            \o (IF quality > 0 THEN <<Tok("-crf"), NumTok("", quality)>> ELSE <<>>)
        ELSE <<Tok("-c:v"), Tok(requested)>>

\* "Audio"
AudioArgs(audio_codec, audio_channels) ==
    IF Lower(audio_codec) # "copy"
    THEN <<Tok("-c:a"), Tok(audio_codec)>>
         \o (IF audio_channels \in {2, 6} THEN <<Tok("-ac"), NumTok("", audio_channels)>> ELSE <<>>)
    ELSE <<>>

\* a language test that also drops video streams by the audio language
KeptByLanguageVideoToo(s, strip, audio_lang, subs_lang) ==
    ~(strip /\ s.codec_type \in {"audio", "video"} /\ Lower(s.language) # Lower(audio_lang))
    /\ ~(strip /\ s.codec_type = "subtitle" /\ Lower(s.language) # Lower(subs_lang))

\* the language test of the mapping loop (if strip: ...)
KeptByLanguage(s, strip, audio_lang, subs_lang) ==
    ~(strip /\ s.codec_type = "audio" /\ Lower(s.language) # Lower(audio_lang))
    /\ ~(strip /\ s.codec_type = "subtitle" /\ Lower(s.language) # Lower(subs_lang))

Mp4TextSubs == {"subrip", "srt", "ass", "ssa", "mov_text"}
WebmSubs == {"webvtt", "srt", "subrip"}

\* the container test of the mapping loop for a subtitle stream that is
\* still kept: [keep, final_sub_codec]
SubtitleDecision(src_codec, trg_ext) ==
    IF trg_ext = ".mp4" THEN
        IF src_codec \in Mp4TextSubs
        THEN [keep |-> TRUE, final_sub_codec |-> "mov_text"]
        ELSE [keep |-> FALSE, final_sub_codec |-> NoCodec]
    ELSE IF trg_ext = ".mkv" THEN [keep |-> TRUE, final_sub_codec |-> "copy"]
    ELSE IF trg_ext = ".webm" THEN
        IF src_codec \in WebmSubs
        THEN [keep |-> TRUE, final_sub_codec |-> "webvtt"]
        ELSE [keep |-> FALSE, final_sub_codec |-> NoCodec]
    ELSE [keep |-> TRUE, final_sub_codec |-> NoCodec]

\* one iteration of the mapping loop: [keep, final_sub_codec]
StreamDecision(s, strip, audio_lang, subs_lang, trg_ext) ==
    IF ~KeptByLanguage(s, strip, audio_lang, subs_lang)
    THEN [keep |-> FALSE, final_sub_codec |-> NoCodec]
    ELSE IF s.codec_type = "subtitle" THEN SubtitleDecision(s.codec_name, trg_ext)
    ELSE [keep |-> TRUE, final_sub_codec |-> NoCodec]

\* subs_codecs_per_stream[idx] = final_sub_codec on an insertion-ordered dict
DictSet(d, k, v) ==
    IF \E i \in 1..Len(d) : d[i].key = k
    THEN [i \in 1..Len(d) |-> IF d[i].key = k THEN [key |-> k, val |-> v] ELSE d[i]]
    ELSE Append(d, [key |-> k, val |-> v])

\* list(subs_codecs_per_stream.keys()).index(idx)
KeyIndex(d, k) ==
    (CHOOSE i \in 1..Len(d) : d[i].key = k /\ \A j \in 1..(i - 1) : d[j].key # k) - 1

\* the mapping loop: map_args and subs_codecs_per_stream after streams[i..]
RECURSIVE MapStreams(_, _, _, _, _, _, _, _)
MapStreams(streams, i, strip, audio_lang, subs_lang, trg_ext, map_args, subs) ==
    IF i > Len(streams) THEN [map_args |-> map_args, subs |-> subs]
    ELSE LET s == streams[i]
             r == StreamDecision(s, strip, audio_lang, subs_lang, trg_ext)
         IN  MapStreams(streams, i + 1, strip, audio_lang, subs_lang, trg_ext,
                 IF r.keep THEN Append(map_args, s.index) ELSE map_args,
                 IF r.keep /\ r.final_sub_codec # NoCodec
                 THEN DictSet(subs, s.index, r.final_sub_codec) ELSE subs)

\* for m in map_args: cmd += ["-map", m]
MapTokens(map_args) ==
    [i \in 1..(2 * Len(map_args)) |->
        IF i % 2 = 1 THEN Tok("-map") ELSE NumTok("0:", map_args[i \div 2])]

\* for idx, sub_c in subs_codecs_per_stream.items(): cmd += [f"-c:s:{...}", sub_c]
SubCodecTokens(subs) ==
    [i \in 1..(2 * Len(subs)) |->
        IF i % 2 = 1 THEN NumTok("-c:s:", KeyIndex(subs, subs[(i + 1) \div 2].key))
        ELSE Tok(subs[i \div 2].val)]

\* build_ffmpeg_cmd: [exit |-> TRUE] when SystemExit leaves the call,
\* otherwise the argument list it returns
build_ffmpeg_cmd(input_path, output_path, a, streams, use_gpu, e) ==
    LET has_video_stream == \E i \in 1..Len(streams) : streams[i].codec_type = "video"
        d == IF has_video_stream
             THEN detect_bit_depth(a.force_8bit /\ ~a.force_10bit, a.force_10bit)
             ELSE [exit |-> FALSE, is_10bit |-> FALSE, is_12bit |-> FALSE, chosen_fmt |-> "nv12"]
        hw_type == HwType(use_gpu, e)
        m == MapStreams(streams, 1, a.strip, a.audio_lang, a.subs_lang,
                        Lower(output_path.ext), <<>>, <<>>)
    IN  IF d.exit THEN [exit |-> TRUE, cmd |-> <<>>]
        ELSE [exit |-> FALSE,
              cmd |-> <<Tok("ffmpeg"), Tok("-y"), Tok("-i"), PathTok(input_path)>>
                      \o (IF Lower(a.video_codec) # "copy" /\ has_video_stream
                          THEN VideoArgs(Lower(a.video_codec), hw_type, a.quality, d)
                          ELSE <<>>)
                      \o AudioArgs(a.audio_codec, a.audio_channels)
                      \o MapTokens(m.map_args)
                      \o SubCodecTokens(m.subs)
                      \o <<PathTok(output_path)>>]

\* the cache after build_ffmpeg_cmd: detect_bit_depth, called when the
\* catalog has a video stream, begins with nvenc_supported_pix_fmts()
FormatsAfterBuild(streams, cache, q, e) ==
    IF \E i \in 1..Len(streams) : streams[i].codec_type = "video"
    THEN nvenc_supported_pix_fmts(cache, q, e)
    ELSE [formats |-> cache, queries |-> q]

(***************************************************************************)
(* main(): preparing the jobs.                                             *)
(***************************************************************************)
HasType(info, type) == \E i \in 1..Len(info) : info[i].codec_type = type

\* needs_transcode
NeedsTranscode(a, fp, info) ==
    LET container == Lower(LStripDot(fp.ext))
    IN  \/ a.video_codec # "copy" /\ HasType(info, "video")
        \/ a.audio_codec # "copy" /\ HasType(info, "audio")
        \/ a.subtitle_codec # "copy" /\ HasType(info, "subtitle")
        \/ a.container # "" /\ Lower(a.container) # container
        \/ a.quality > 0
        \/ a.audio_channels > 0
        \/ a.strip

\* out_fp: "Build temp output path with _tmp_ prefix"
OutFp(a, fp) ==
    LET tmp_filename == TmpFilename(fp)
        rel_parent == IF a.dir_mode THEN fp.parent ELSE "."
        placed == IF a.output
                  THEN [tmp_filename EXCEPT !.root = "out", !.parent = rel_parent]
                  ELSE tmp_filename
        new_ext == IF StartsWithDot(a.container) THEN a.container
                   ELSE DotPrefix(a.container)
    IN  IF a.container # "" THEN WithSuffix(placed, Lower(new_ext)) ELSE placed

\* clean_path: tmp_path.name.replace("_tmp_", "", 1)
CleanPath(tmp_path) == [tmp_path EXCEPT !.tmp = IF @ > 0 THEN @ - 1 ELSE @]

\* worker_cnt
WorkerCnt(a) == IF a.workers > 0 THEN a.workers ELSE 1

(***************************************************************************)
(* The file system.                                                        *)
(***************************************************************************)
Orig(f) == [kind |-> "orig", of |-> f]     \* the source file as discovered
Part(f) == [kind |-> "part", of |-> f]     \* output of f's encoder, incomplete
Enc(f) == [kind |-> "enc", of |-> f]       \* output of f's encoder, complete

Exists(f, p) == p \in DOMAIN f

\* open for writing, as ffmpeg -y does
WriteFile(f, p, c) == [q \in DOMAIN f \cup {p} |-> IF q = p THEN c ELSE f[q]]

\* a finalization that forgets to delete the original
UnlinkKeepsFile(f, p) == f

\* Path.unlink
Unlink(f, p) == [q \in DOMAIN f \ {p} |-> f[q]]

\* Path.rename of an existing file (replaces an existing target)
Rename(f, a, b) ==
    [q \in (DOMAIN f \ {a}) \cup {b} |-> IF q = b THEN f[a] ELSE f[q]]

\* the encoder's output is complete: the file it has been writing
FinishWrite(f, src) ==
    [q \in DOMAIN f |-> IF f[q] = Part(src) THEN Enc(src) ELSE f[q]]

Jobs == 1..Len(tfiles)

Range(seq) == {seq[i] : i \in 1..Len(seq)}

RECURSIVE Filter(_, _, _)
\* [fp for fp in files if needs_transcode]
Filter(seq, a, pr) ==
    IF seq = <<>> THEN <<>>
    ELSE (IF NeedsTranscode(a, Head(seq), probe_streams(pr[Head(seq)]))
          THEN <<Head(seq)>> ELSE <<>>) \o Filter(Tail(seq), a, pr)

NoPlan == [exit |-> FALSE, cmd |-> <<>>]
NoLog == [written |-> FALSE, lines |-> <<>>]

\* the for fp in files loop, then the "No files need transcoding" exit
\* (runs without --dry-run, --probe and --list)
Prepare ==
    /\ main_pc = "prepare"
    /\ tfiles' = Filter(files, args, probe)
    /\ out_paths' = [i \in 1..Len(tfiles') |-> OutFp(args, tfiles'[i])]
    /\ fut' = [i \in 1..Len(tfiles') |-> "pending"]
    /\ outcome' = [i \in 1..Len(tfiles') |-> "none"]
    /\ IF tfiles' = <<>>
       THEN main_pc' = "exited" /\ exit_code' = 0
       ELSE main_pc' = "loop" /\ exit_code' = exit_code
    /\ UNCHANGED <<args, env, files, probe, fs, errors, success_count, cur,
                   summary, logfile, plan, cachevars>>

(***************************************************************************)
(* transcode_file, run by the pool's worker threads.                       *)
(***************************************************************************)
PoolOpen == main_pc \in {"loop", "rename", "aborting"}

\* what ffprobe can answer for a source at the moment a worker probes it
ProbeOutcomes(src) ==
    IF ~Exists(fs, src) THEN {ProbeFailed}
    ELSE IF fs[src] = Orig(src) THEN {probe[src]}
    ELSE {ProbeFailed} \cup {probe[f] : f \in Range(files)}

\* a worker takes the next queued job (the pool's queue is first in, first
\* out): probe, compile the plan, start ffmpeg, which opens its output file.
\* The call of nvenc_supported_pix_fmts inside it is taken as one step here;
\* SpecCache follows it statement by statement.
WorkerStart(j) ==
    /\ PoolOpen
    /\ fut[j] = "pending"
    /\ \A i \in 1..(j - 1) : fut[i] # "pending"
    /\ Cardinality({i \in Jobs : fut[i] = "running"}) < WorkerCnt(args)
    /\ \E raw \in ProbeOutcomes(tfiles[j]) :
        LET streams == probe_streams(raw)
            built == build_ffmpeg_cmd(tfiles[j], out_paths[j], args, streams, TRUE, env)
            nv == FormatsAfterBuild(streams, nvenc_formats, queries, env)
        IN  /\ nvenc_formats' = nv.formats
            /\ queries' = nv.queries
            /\ IF streams = <<>>
               THEN /\ errors' = Append(errors, [file |-> tfiles[j],
                                                 what |-> "could not probe streams"])
                    /\ fut' = [fut EXCEPT ![j] = "false"]
                    /\ fs' = fs
               ELSE IF built.exit
               THEN /\ fut' = [fut EXCEPT ![j] = "exit"]
                    /\ UNCHANGED <<errors, fs>>
               ELSE /\ fut' = [fut EXCEPT ![j] = "running"]
                    /\ fs' = WriteFile(fs, out_paths[j], Part(tfiles[j]))
                    /\ errors' = errors
    /\ UNCHANGED <<args, env, files, probe, tfiles, out_paths, outcome,
                   success_count, main_pc, cur, exit_code, summary, logfile, plan,
                   call>>

\* ffmpeg ends: exit status zero, or CalledProcessError
EncoderExit(j) ==
    /\ PoolOpen
    /\ fut[j] = "running"
    /\ \E ok \in BOOLEAN :
        IF ok
        THEN /\ fs' = FinishWrite(fs, tfiles[j])
             /\ fut' = [fut EXCEPT ![j] = "true"]
             /\ errors' = errors
        ELSE /\ errors' = Append(errors, [file |-> tfiles[j], what |-> "ffmpeg failed"])
             /\ fut' = [fut EXCEPT ![j] = "false"]
             /\ fs' = fs
    /\ UNCHANGED <<args, env, files, probe, tfiles, out_paths, outcome,
                   success_count, main_pc, cur, exit_code, summary, logfile, plan, cachevars>>

(***************************************************************************)
(* main(): the as_completed loop.                                          *)
(***************************************************************************)
Completed(j) == fut[j] \in {"true", "false", "exit"} /\ outcome[j] = "none"

\* if not fut.result(): continue
SkipFailed(j) ==
    /\ main_pc = "loop"
    /\ Completed(j)
    /\ fut[j] = "false"
    /\ outcome' = [outcome EXCEPT ![j] = "failed"]
    /\ UNCHANGED <<args, env, files, probe, fs, tfiles, out_paths, fut, errors,
                   success_count, main_pc, cur, exit_code, summary, logfile, plan, cachevars>>

\* fut.result() re-raises the worker's SystemExit, which except Exception
\* does not catch: it leaves the loop and the with block waits for the pool
ResultRaisesExit(j) ==
    /\ main_pc = "loop"
    /\ Completed(j)
    /\ fut[j] = "exit"
    /\ main_pc' = "aborting"
    /\ UNCHANGED <<args, env, files, probe, fs, tfiles, out_paths, fut, outcome,
                   errors, success_count, cur, exit_code, summary, logfile, plan, cachevars>>

\* tmp_path.rename(clean_path), then success_count += 1, or the except branch
RenameStep(j) ==
    \E oserr \in BOOLEAN :
        IF oserr \/ ~Exists(fs, out_paths[j])
        THEN /\ errors' = Append(errors, [file |-> tfiles[j], what |-> "rename failed"])
             /\ outcome' = [outcome EXCEPT ![j] = "finalize_error"]
             /\ UNCHANGED <<fs, success_count>>
        ELSE /\ fs' = Rename(fs, out_paths[j], CleanPath(out_paths[j]))
             /\ success_count' = success_count + 1
             /\ outcome' = [outcome EXCEPT ![j] =
                              IF args.no_replace THEN "kept_alongside" ELSE "replaced"]
             /\ errors' = errors

\* args.no_replace: only the rename
FinalizeNoReplace(j) ==
    /\ main_pc = "loop"
    /\ Completed(j)
    /\ fut[j] = "true"
    /\ args.no_replace
    /\ RenameStep(j)
    /\ UNCHANGED <<args, env, files, probe, tfiles, out_paths, fut, main_pc, cur,
                   exit_code, summary, logfile, plan, cachevars>>

\* if in_path.exists(): in_path.unlink()
FinalizeUnlink(j) ==
    /\ main_pc = "loop"
    /\ Completed(j)
    /\ fut[j] = "true"
    /\ ~args.no_replace
    /\ \E oserr \in BOOLEAN :
        IF oserr /\ Exists(fs, tfiles[j])
        THEN /\ errors' = Append(errors, [file |-> tfiles[j], what |-> "unlink failed"])
             /\ outcome' = [outcome EXCEPT ![j] = "finalize_error"]
             /\ UNCHANGED <<fs, main_pc, cur>>
        ELSE /\ fs' = IF Exists(fs, tfiles[j]) THEN Unlink(fs, tfiles[j]) ELSE fs
             /\ main_pc' = "rename"
             /\ cur' = j
             /\ UNCHANGED <<errors, outcome>>
    /\ UNCHANGED <<args, env, files, probe, tfiles, out_paths, fut, success_count,
                   exit_code, summary, logfile, plan, cachevars>>

\* the rename that follows the unlink
FinalizeRename ==
    /\ main_pc = "rename"
    /\ RenameStep(cur)
    /\ main_pc' = "loop"
    /\ cur' = 0
    /\ UNCHANGED <<args, env, files, probe, tfiles, out_paths, fut, exit_code,
                   summary, logfile, plan, cachevars>>

\* "Summary": the count line, the log file, sys.exit when nothing succeeded
Summary ==
    /\ main_pc = "loop"
    /\ \A j \in Jobs : outcome[j] # "none"
    /\ summary' = TRUE
    /\ logfile' = IF errors # <<>> THEN [written |-> TRUE, lines |-> errors] ELSE logfile
    /\ exit_code' = IF success_count = 0 THEN 1 ELSE 0
    /\ main_pc' = "exited"
    /\ UNCHANGED <<args, env, files, probe, fs, tfiles, out_paths, fut, outcome,
                   errors, success_count, cur, plan, cachevars>>

\* the with block has waited for every worker; SystemExit(0) ends the process
ExitAfterAbort ==
    /\ main_pc = "aborting"
    /\ \A j \in Jobs : fut[j] \notin {"pending", "running"}
    /\ exit_code' = 0
    /\ main_pc' = "exited"
    /\ UNCHANGED <<args, env, files, probe, fs, tfiles, out_paths, fut, outcome,
                   errors, success_count, cur, summary, logfile, plan, cachevars>>

(***************************************************************************)
(* Runs of the execution engine.                                           *)
(***************************************************************************)
SrcPath(parent, tmp, ext) ==
    [root |-> "dir", parent |-> parent, tmp |-> tmp, stem |-> "a", ext |-> ext]

\* the media files a scan can discover: a.mkv, a.mp4 and a _tmp_a.mkv left
\* behind by an earlier run
RunSources ==
    {SrcPath(".", 0, ".mkv"), SrcPath(".", 0, ".mp4"), SrcPath(".", 1, ".mkv")}

RawStream(index, type, codec, tag) ==
    [index |-> index, codec_type |-> type, codec_name |-> codec, tag |-> tag]

\* ffprobe answers: failure, a video-only file, an audio-only file
RunProbes ==
    {ProbeFailed,
     [ok |-> TRUE, streams |-> <<RawStream(0, "video", "h264", NoTag)>>],
     [ok |-> TRUE, streams |-> <<RawStream(0, "audio", "aac", "eng")>>]}

RunArgs ==
    [container : {"", "mkv"}, output : BOOLEAN, dir_mode : BOOLEAN,
     quality : {0}, video_codec : {"copy", "h264"}, audio_codec : {"copy"},
     audio_channels : {0}, subtitle_codec : {"copy"}, strip : BOOLEAN,
     audio_lang : {"eng"}, subs_lang : {"eng"}, no_replace : BOOLEAN,
     workers : {0, 2}, force_8bit : BOOLEAN, force_10bit : {FALSE}]

NoTools == [nvidia_smi |-> FALSE, vainfo |-> FALSE, nvenc_query |-> FALSE]

\* sequences of n distinct discovered files
FileLists(n) ==
    {s \in [1..n -> RunSources] : \A i, j \in 1..n : i # j => s[i] # s[j]}

Init ==
    /\ args \in RunArgs
    /\ env = NoTools
    /\ \E n \in 1..MaxFiles : files \in FileLists(n)
    /\ args.dir_mode \/ Len(files) = 1
    /\ probe \in [Range(files) -> RunProbes]
    /\ fs = [f \in Range(files) |-> Orig(f)]
    /\ tfiles = <<>>
    /\ out_paths = <<>>
    /\ fut = <<>>
    /\ outcome = <<>>
    /\ errors = <<>>
    /\ success_count = 0
    /\ main_pc = "prepare"
    /\ cur = 0
    /\ exit_code = -1
    /\ summary = FALSE
    /\ logfile = NoLog
    /\ plan = NoPlan
    /\ nvenc_formats = NotCached
    /\ queries = 0
    /\ call = <<>>

Next ==
    \/ Prepare
    \/ \E j \in Jobs : WorkerStart(j)
    \/ \E j \in Jobs : EncoderExit(j)
    \/ \E j \in Jobs : SkipFailed(j)
    \/ \E j \in Jobs : ResultRaisesExit(j)
    \/ \E j \in Jobs : FinalizeNoReplace(j)
    \/ \E j \in Jobs : FinalizeUnlink(j)
    \/ FinalizeRename
    \/ Summary
    \/ ExitAfterAbort

Spec == Init /\ [][Next]_vars

(***************************************************************************)
(* Properties of the execution engine (specification Spec).                *)
(***************************************************************************)
JobsOf(f) == {j \in Jobs : tfiles[j] = f}

\* C1: a source file is either given no job and left untouched, or its job
\* has one terminal outcome, a failed job leaving the source's existence and
\* content unchanged; no source file is ever partially overwritten, neither
\* by an encoder writing a temp output nor by another job's rename.
C1_SourceNeverOverwritten ==
    \A f \in Range(files) :
        /\ JobsOf(f) = {} => Exists(fs, f) /\ fs[f] = Orig(f)
        /\ Exists(fs, f) => fs[f].kind # "part"
        /\ \A j \in JobsOf(f) :
              outcome[j] = "failed" => Exists(fs, f) /\ fs[f] = Orig(f)

\* C2 as stated: once a job is finalized without no-replace, its original
\* source path no longer exists and its clean destination path exists, for
\* every combination of target container and output root.
C2_SourceGoneAfterReplace ==
    \A j \in Jobs :
        outcome[j] = "replaced" =>
            ~Exists(fs, tfiles[j]) /\ Exists(fs, CleanPath(out_paths[j]))

\* C2 as amended: the step that completes a job's finalization without
\* no-replace leaves the clean destination path existing and the original
\* source file gone: the source path no longer exists, unless the clean
\* destination is the source path itself (no container change, no output
\* root) or another job's temp output was written to that path, and then it
\* holds encoder output, not the original.
C2_FinalizeReplaces ==
    [][\A j \in Jobs :
          (outcome[j] = "none" /\ outcome'[j] = "replaced") =>
              LET src == tfiles[j]
                  clean == [out_paths[j] EXCEPT !.tmp = @ - 1]
              IN  /\ Exists(fs', clean)
                  /\ fs'[clean].kind # "orig"
                  /\ Exists(fs', src) =>
                        /\ fs'[src].kind # "orig"
                        /\ \/ src = clean
                           \/ \E k \in Jobs \ {j} : out_paths[k] = src]_vars

\* C2 witness: a run has ended in which a job replaced its source by its
\* encoder's output under a clean name that differs from the source path.
C2_Witness ==
    /\ \E j \in Jobs :
          /\ outcome[j] = "replaced"
          /\ CleanPath(out_paths[j]) # tfiles[j]
          /\ ~Exists(fs, tfiles[j])
          /\ Exists(fs, CleanPath(out_paths[j]))
          /\ fs[CleanPath(out_paths[j])] = Enc(tfiles[j])
    /\ main_pc = "exited"

\* C3: in no-replace mode, finalizing a successful job leaves the original
\* source file present with its original content and puts the output under
\* the clean name, also when neither a container nor an output root is given.
C3_NoReplaceKeepsSource ==
    \A j \in Jobs :
        outcome[j] = "kept_alongside" =>
            /\ Exists(fs, tfiles[j]) /\ fs[tfiles[j]] = Orig(tfiles[j])
            /\ Exists(fs, CleanPath(out_paths[j]))

\* C4: a failure inside a job never aborts the run: when the process ends
\* after jobs were created, every job whose encoder succeeded was finalized,
\* every failed job has an entry in the error list, the error list was
\* written to the log file, the summary was reported and the exit status is
\* non-zero exactly when no job succeeded.
C4_JobFailureNeverAbortsRun ==
    (main_pc = "exited" /\ tfiles # <<>>) =>
        /\ \A j \in Jobs : outcome[j] # "none"
        /\ \A j \in Jobs :
              fut[j] \in {"false", "exit"} =>
                  \E i \in 1..Len(errors) : errors[i].file = tfiles[j]
        /\ errors # <<>> => logfile = [written |-> TRUE, lines |-> errors]
        /\ summary
        /\ (exit_code # 0) <=> (success_count = 0)

\* C5: any two distinct jobs of a run have different temp destination paths.
C5_TempPathsDistinct ==
    \A i, j \in Jobs : i # j => out_paths[i] # out_paths[j]

\* the user asked for some change: a codec other than copy, a container,
\* a quality, a channel count or language stripping
RequestedChange(a) ==
    \/ a.video_codec # "copy"
    \/ a.audio_codec # "copy"
    \/ a.subtitle_codec # "copy"
    \/ a.container # ""
    \/ a.quality > 0
    \/ a.audio_channels > 0
    \/ a.strip

\* the error list holds "could not probe streams" for f
ProbeErrorLogged(f) ==
    \E i \in 1..Len(errors) :
        errors[i] = [file |-> f, what |-> "could not probe streams"]

\* C11: a file whose probe fails or returns no streams is never silently
\* skipped: when the user requested any change, the file gets a job, and
\* once a worker has run that job on the untouched source the job has failed
\* with a "could not probe streams" entry in the error list.
C11_ProbeFailureNeverSilent ==
    main_pc # "prepare" /\ RequestedChange(args) =>
        \A f \in Range(files) :
            probe_streams(probe[f]) = <<>> =>
                /\ JobsOf(f) # {}
                /\ \A j \in JobsOf(f) :
                      fut[j] # "pending" /\ Exists(fs, f) /\ fs[f] = Orig(f) =>
                          fut[j] = "false" /\ ProbeErrorLogged(f)

(***************************************************************************)
(* Runs of the plan compiler: one source file, probed and compiled as      *)
(* main() and transcode_file do for one job.                               *)
(***************************************************************************)
\* the streams ffprobe can report: codec_type, codec_name, language tag
StreamKinds ==
    {<<"video", "h264", "FRE">>,
     <<"audio", "aac", "eng">>, <<"audio", "aac", "FRE">>, <<"audio", "ac3", "jpn">>,
     <<"subtitle", "subrip", "eng">>, <<"subtitle", "subrip", "fre">>,
     <<"subtitle", "webvtt", "eng">>,
     <<"subtitle", "hdmv_pgs_subtitle", NoTag>>}

\* ffprobe output of n streams, indexed 0..n-1
PlanProbes(n) ==
    {[ok |-> TRUE,
      streams |-> [i \in 1..n |-> RawStream(i - 1, k[i][1], k[i][2], k[i][3])]] :
        k \in [1..n -> StreamKinds]}

\* source suffix and --container: no container given, the source's own
\* container given (also dotted and in upper case), another container given
PlanTargets ==
    {<<".mkv", "">>, <<".mp4", "">>, <<".webm", "">>,
     <<".mp4", "mp4">>, <<".mkv", ".MKV">>,
     <<".mkv", "mp4">>, <<".mkv", "avi">>, <<".mp4", ".MKV">>}

\* codec, quality and channel requests together with the tools present; in
\* the last one nvidia-smi is installed but ffmpeg's NVENC query fails
PlanProfiles ==
    {[video_codec |-> "copy", quality |-> 0, audio_codec |-> "copy", audio_channels |-> 0,
      tools |-> NoTools],
     [video_codec |-> "h264", quality |-> 23, audio_codec |-> "aac", audio_channels |-> 2,
      tools |-> [nvidia_smi |-> TRUE, vainfo |-> TRUE, nvenc_query |-> TRUE]],
     [video_codec |-> "hevc", quality |-> 23, audio_codec |-> "aac", audio_channels |-> 5,
      tools |-> [nvidia_smi |-> FALSE, vainfo |-> TRUE, nvenc_query |-> FALSE]],
     [video_codec |-> "libx264", quality |-> 23, audio_codec |-> "copy", audio_channels |-> 6,
      tools |-> NoTools],
     [video_codec |-> "hevc", quality |-> 0, audio_codec |-> "copy", audio_channels |-> 0,
      tools |-> [nvidia_smi |-> TRUE, vainfo |-> FALSE, nvenc_query |-> FALSE]]}

\* strip with the audio and subtitle language it is used with
PlanStripping ==
    {[strip |-> FALSE, audio_lang |-> "eng", subs_lang |-> "eng"],
     [strip |-> TRUE, audio_lang |-> "eng", subs_lang |-> "eng"],
     [strip |-> TRUE, audio_lang |-> "FRE", subs_lang |-> "und"]}

\* --force-8bit / --force-10bit
PlanForcing ==
    {[force_8bit |-> TRUE, force_10bit |-> FALSE],
     [force_8bit |-> FALSE, force_10bit |-> FALSE],
     [force_8bit |-> TRUE, force_10bit |-> TRUE]}

PlanArgs(c, pf, st, fo) ==
    [container |-> c, output |-> FALSE, dir_mode |-> TRUE,
     quality |-> pf.quality, video_codec |-> pf.video_codec,
     audio_codec |-> pf.audio_codec, audio_channels |-> pf.audio_channels,
     subtitle_codec |-> "copy", strip |-> st.strip,
     audio_lang |-> st.audio_lang, subs_lang |-> st.subs_lang,
     no_replace |-> FALSE, workers |-> 1,
     force_8bit |-> fo.force_8bit, force_10bit |-> fo.force_10bit]

InitPlan ==
    /\ \E tg \in PlanTargets, pf \in PlanProfiles, st \in PlanStripping,
          fo \in PlanForcing :
          /\ args = PlanArgs(tg[2], pf, st, fo)
          /\ env = pf.tools
          /\ files = <<SrcPath(".", 0, tg[1])>>
    /\ \E n \in 1..MaxStreams : probe \in [Range(files) -> PlanProbes(n)]
    /\ fs = [f \in Range(files) |-> Orig(f)]
    /\ tfiles = <<>>
    /\ out_paths = <<>>
    /\ fut = <<>>
    /\ outcome = <<>>
    /\ errors = <<>>
    /\ success_count = 0
    /\ main_pc = "compile"
    /\ cur = 0
    /\ exit_code = -1
    /\ summary = FALSE
    /\ logfile = NoLog
    /\ plan = NoPlan
    /\ nvenc_formats = NotCached
    /\ queries = 0
    /\ call = <<>>

\* the source, its catalog and its temp destination in a plan-compiler run
PlanInput == files[1]
PlanStreams == probe_streams(probe[PlanInput])
PlanOutput == OutFp(args, PlanInput)

\* transcode_file's call of build_ffmpeg_cmd on the probed catalog
Compile ==
    /\ main_pc = "compile"
    /\ PlanStreams # <<>>
    /\ plan' = build_ffmpeg_cmd(PlanInput, PlanOutput, args, PlanStreams, TRUE, env)
    /\ nvenc_formats' = FormatsAfterBuild(PlanStreams, nvenc_formats, queries, env).formats
    /\ queries' = FormatsAfterBuild(PlanStreams, nvenc_formats, queries, env).queries
    /\ main_pc' = "compiled"
    /\ UNCHANGED <<args, env, files, probe, fs, tfiles, out_paths, fut, outcome,
                   errors, success_count, cur, exit_code, summary, logfile, call>>

NextPlan == Compile

SpecPlan == InitPlan /\ [][NextPlan]_vars

(***************************************************************************)
(* Properties of the plan compiler (specification SpecPlan), read off the  *)
(* compiled argument list.                                                 *)
(***************************************************************************)
Compiled == main_pc = "compiled" /\ ~plan.exit

\* the stream indices of the 0:<idx> arguments, in order of emission
MappedIndices == SelectSeq(plan.cmd, LAMBDA tk : tk.s = "0:")

MapFlags == SelectSeq(plan.cmd, LAMBDA tk : tk = Tok("-map"))

Mapped(s) == \E i \in 1..Len(MappedIndices) : MappedIndices[i].n = s.index

\* the -c:s:<pos> overrides: positions in the argument list
OverridePositions == {i \in 1..Len(plan.cmd) : plan.cmd[i].s = "-c:s:"}

\* the codecs given for output subtitle position pos
OverrideCodecs(pos) ==
    {plan.cmd[i + 1].s : i \in {k \in OverridePositions : plan.cmd[k].n = pos}}

\* a stream's 0-based ordinal among the mapped subtitle streams
SubtitleOrdinal(i) ==
    Cardinality({k \in 1..(i - 1) :
        PlanStreams[k].codec_type = "subtitle" /\ Mapped(PlanStreams[k])})

\* the language a probed stream counts as having: its tag, "und" without one
TagLanguage(i) ==
    LET tag == probe[PlanInput].streams[i].tag
    IN  IF tag = NoTag THEN "und" ELSE tag

\* language equality as the tool compares languages: ignoring case
SameLanguage(x, y) == Lower(x) = Lower(y)

\* subtitle streams that language stripping leaves in
SurvivingSubtitles ==
    {i \in 1..Len(PlanStreams) :
        /\ PlanStreams[i].codec_type = "subtitle"
        /\ args.strip => SameLanguage(TagLanguage(i), args.subs_lang)}

TargetExt == Lower(PlanOutput.ext)

\* the table of section 4.2: "drop", or the output codec
TableDecision(src_codec, trg_ext) ==
    IF trg_ext = ".mp4"
    THEN (IF src_codec \in {"subrip", "srt", "ass", "ssa", "mov_text"} THEN "mov_text" ELSE "drop")
    ELSE IF trg_ext = ".mkv" THEN "copy"
    ELSE IF trg_ext = ".webm"
    THEN (IF src_codec \in {"webvtt", "srt", "subrip"} THEN "webvtt" ELSE "drop")
    ELSE "drop"

\* stream i is mapped and its override, at its ordinal, is exactly codec
KeptAs(i, codec) ==
    /\ Mapped(PlanStreams[i])
    /\ OverrideCodecs(SubtitleOrdinal(i)) = {codec}

\* C6: build_ffmpeg_cmd returns an argument list for every non-empty catalog
\* and every combination of options; it never exits the process.
C6_CompilationTotal == main_pc = "compiled" => ~plan.exit

\* C7: for every subtitle stream that survives language stripping, the
\* decision matches the table: .mp4 re-encodes text codecs to mov_text and
\* drops the rest, .mkv copies, .webm re-encodes webvtt/srt/subrip to webvtt
\* and drops the rest, .avi and unrecognized targets drop every subtitle.
C7_SubtitleTable ==
    Compiled =>
        \A i \in SurvivingSubtitles :
            LET want == TableDecision(PlanStreams[i].codec_name, TargetExt)
            IN  IF want = "drop" THEN ~Mapped(PlanStreams[i]) ELSE KeptAs(i, want)

\* C8: when the target container equals the source container, every subtitle
\* stream that survives language stripping is kept with codec decision copy.
C8_SameContainerCopies ==
    (Compiled /\ TargetExt = Lower(PlanInput.ext)) =>
        \A i \in SurvivingSubtitles : KeptAs(i, "copy")

\* C9: the -map arguments are the kept streams in catalog order, and every
\* kept subtitle stream has exactly one -c:s:<position> override, at its
\* ordinal among the kept subtitle streams, so the override keys are 0..k-1
\* for k kept subtitle streams.
C9_MapAndOverrideShape ==
    Compiled =>
        LET keptSubs == {i \in 1..Len(PlanStreams) :
                            PlanStreams[i].codec_type = "subtitle" /\ Mapped(PlanStreams[i])}
        IN  /\ Len(MapFlags) = Len(MappedIndices)
            /\ \A a, b \in 1..Len(MappedIndices) :
                  a < b => MappedIndices[a].n < MappedIndices[b].n
            /\ \A i \in keptSubs :
                  Cardinality({k \in OverridePositions :
                                  plan.cmd[k].n = SubtitleOrdinal(i)}) = 1
            /\ {plan.cmd[k].n : k \in OverridePositions} = 0..(Cardinality(keptSubs) - 1)
            /\ Cardinality(OverridePositions) = Cardinality(keptSubs)

\* C10: with stripping enabled an audio stream is kept exactly when its
\* language (a missing tag counting as "und") is the configured audio
\* language, no kept subtitle stream has another language than the configured
\* subtitle language, and every video stream is kept; with stripping disabled
\* every audio and video stream is kept and whether a subtitle stream is kept
\* does not depend on its language.
C10_LanguageStripping ==
    Compiled =>
        \A i \in 1..Len(PlanStreams) :
            LET s == PlanStreams[i]
            IN  /\ s.codec_type = "video" => Mapped(s)
                /\ s.codec_type = "audio" =>
                      (Mapped(s) <=>
                          (args.strip => SameLanguage(TagLanguage(i), args.audio_lang)))
                /\ (s.codec_type = "subtitle" /\ args.strip /\ Mapped(s)) =>
                      SameLanguage(TagLanguage(i), args.subs_lang)
                /\ ~args.strip =>
                      \A k \in 1..Len(PlanStreams) :
                          (s.codec_type = "subtitle"
                           /\ PlanStreams[k].codec_type = "subtitle"
                           /\ PlanStreams[k].codec_name = s.codec_name)
                          => (Mapped(s) <=> Mapped(PlanStreams[k]))

\* C10 witness: a compiled plan under stripping to "eng" for a catalog of a
\* video stream tagged fre, an audio stream tagged eng and an audio stream
\* tagged fre: the video and the eng audio are kept, the fre audio is dropped.
C10_Witness ==
    /\ Compiled
    /\ args.strip
    /\ args.audio_lang = "eng"
    /\ Len(PlanStreams) = 3
    /\ \E v, a, b \in 1..3 :
          /\ PlanStreams[v].codec_type = "video" /\ PlanStreams[v].language = "fre"
          /\ PlanStreams[a].codec_type = "audio" /\ PlanStreams[a].language = "eng"
          /\ PlanStreams[b].codec_type = "audio" /\ PlanStreams[b].language = "fre"
          /\ Mapped(PlanStreams[v]) /\ Mapped(PlanStreams[a]) /\ ~Mapped(PlanStreams[b])
    /\ Len(MappedIndices) = 2

\* the encoder the plan names after -c:v, if any
VideoEncoders ==
    {plan.cmd[i + 1].s : i \in {k \in 1..(Len(plan.cmd) - 1) : plan.cmd[k] = Tok("-c:v")}}

NvencEncoders == {"h264_nvenc", "hevc_nvenc"}
VaapiEncoders == {"h264_vaapi", "hevc_vaapi"}
SoftwareEncoders == {"libx264", "libx265"}

\* C13: when a video re-encode is requested and the preferred hardware
\* backend's tooling (nvidia-smi) is present but its capability test fails,
\* the backend selected is the next in priority order (VAAPI if vainfo is
\* present) or none, never the failed one: the compiled plan names no NVENC
\* encoder, but a VAAPI encoder or a software encoder.
C13_FailedBackendNotSelected ==
    /\ Compiled
    /\ Lower(args.video_codec) \in H264Names \cup HevcNames
    /\ HasType(PlanStreams, "video")
    /\ env.nvidia_smi /\ ~env.nvenc_query
    => /\ VideoEncoders \cap NvencEncoders = {}
       /\ VideoEncoders \subseteq (IF env.vainfo THEN VaapiEncoders ELSE SoftwareEncoders)
       /\ VideoEncoders # {}

(***************************************************************************)
(* Runs of the worker pool that follow each job's call of                  *)
(* nvenc_supported_pix_fmts statement by statement: the test of the        *)
(* global, the query and the assignment are separate steps of a worker     *)
(* thread, and the threads of the pool interleave between them.  The main  *)
(* thread has submitted the jobs and waits in as_completed.                *)
(***************************************************************************)
\* fmts = set() before the call has run
NoCall == [pc |-> "idle", fmts |-> {}]

CacheArgs(w, f8) ==
    [container |-> "", output |-> FALSE, dir_mode |-> TRUE,
     quality |-> 23, video_codec |-> "h264", audio_codec |-> "copy",
     audio_channels |-> 0, subtitle_codec |-> "copy", strip |-> FALSE,
     audio_lang |-> "eng", subs_lang |-> "eng", no_replace |-> FALSE,
     workers |-> w, force_8bit |-> f8, force_10bit |-> FALSE]

CacheTools ==
    {NoTools, [nvidia_smi |-> TRUE, vainfo |-> FALSE, nvenc_query |-> TRUE]}

InitCache ==
    /\ \E w \in 1..MaxFiles, f8 \in BOOLEAN : args = CacheArgs(w, f8)
    /\ env \in CacheTools
    /\ \E n \in 1..MaxFiles : files \in FileLists(n)
    /\ probe \in [Range(files) -> RunProbes \ {ProbeFailed}]
    /\ fs = [f \in Range(files) |-> Orig(f)]
    /\ tfiles = Filter(files, args, probe)
    /\ out_paths = [i \in 1..Len(tfiles) |-> OutFp(args, tfiles[i])]
    /\ fut = [i \in 1..Len(tfiles) |-> "pending"]
    /\ outcome = [i \in 1..Len(tfiles) |-> "none"]
    /\ errors = <<>>
    /\ success_count = 0
    /\ main_pc = "loop"
    /\ cur = 0
    /\ exit_code = -1
    /\ summary = FALSE
    /\ logfile = NoLog
    /\ plan = NoPlan
    /\ nvenc_formats = NotCached
    /\ queries = 0
    /\ call = [i \in 1..Len(tfiles) |-> NoCall]

\* a worker takes the next queued job and runs transcode_file up to
\* detect_bit_depth's call of nvenc_supported_pix_fmts, or, for a catalog
\* without a video stream, past build_ffmpeg_cmd
JobStart(j) ==
    /\ PoolOpen
    /\ fut[j] = "pending"
    /\ \A i \in 1..(j - 1) : fut[i] # "pending"
    /\ Cardinality({i \in Jobs : fut[i] \in {"probed", "running"}}) < WorkerCnt(args)
    /\ \E raw \in ProbeOutcomes(tfiles[j]) :
        LET streams == probe_streams(raw)
        IN  IF streams = <<>>
            THEN /\ errors' = Append(errors, [file |-> tfiles[j],
                                              what |-> "could not probe streams"])
                 /\ fut' = [fut EXCEPT ![j] = "false"]
                 /\ call' = call
            ELSE /\ fut' = [fut EXCEPT ![j] = "probed"]
                 /\ call' = [call EXCEPT ![j].pc =
                                IF HasType(streams, "video") THEN "test" ELSE "idle"]
                 /\ errors' = errors
    /\ UNCHANGED <<args, env, files, probe, fs, tfiles, out_paths, outcome,
                   success_count, main_pc, cur, exit_code, summary, logfile, plan,
                   nvenc_formats, queries>>

\* if _NVENC_FORMATS is not None: return _NVENC_FORMATS
CacheTest(j) ==
    /\ call[j].pc = "test"
    /\ call' = [call EXCEPT ![j].pc = IF nvenc_formats.cached THEN "returned" ELSE "query"]
    /\ UNCHANGED <<args, env, files, probe, fs, tfiles, out_paths, fut, outcome,
                   errors, success_count, main_pc, cur, exit_code, summary, logfile,
                   plan, nvenc_formats, queries>>

\* fmts = set(), then the try block around subprocess.check_output
CacheQuery(j) ==
    /\ call[j].pc = "query"
    /\ queries' = queries + 1
    /\ call' = [call EXCEPT ![j] = [pc |-> "store", fmts |-> NvencQuery(env)]]
    /\ UNCHANGED <<args, env, files, probe, fs, tfiles, out_paths, fut, outcome,
                   errors, success_count, main_pc, cur, exit_code, summary, logfile,
                   plan, nvenc_formats>>

\* _NVENC_FORMATS = fmts, and the return
CacheStore(j) ==
    /\ call[j].pc = "store"
    /\ nvenc_formats' = Cached(call[j].fmts)
    /\ call' = [call EXCEPT ![j].pc = "returned"]
    /\ UNCHANGED <<args, env, files, probe, fs, tfiles, out_paths, fut, outcome,
                   errors, success_count, main_pc, cur, exit_code, summary, logfile,
                   plan, queries>>

\* the rest of build_ffmpeg_cmd: detect_bit_depth's exit(0), or the command
\* is built and ffmpeg starts, opening its output file
JobEncode(j) ==
    /\ fut[j] = "probed"
    /\ call[j].pc \in {"idle", "returned"}
    /\ LET d == detect_bit_depth(args.force_8bit /\ ~args.force_10bit, args.force_10bit)
       IN  IF call[j].pc = "returned" /\ d.exit
           THEN /\ fut' = [fut EXCEPT ![j] = "exit"]
                /\ fs' = fs
           ELSE /\ fut' = [fut EXCEPT ![j] = "running"]
                /\ fs' = WriteFile(fs, out_paths[j], Part(tfiles[j]))
    /\ UNCHANGED <<args, env, files, probe, tfiles, out_paths, outcome, errors,
                   success_count, main_pc, cur, exit_code, summary, logfile, plan,
                   cachevars>>

NextCache ==
    \/ \E j \in Jobs : JobStart(j)
    \/ \E j \in Jobs : CacheTest(j)
    \/ \E j \in Jobs : CacheQuery(j)
    \/ \E j \in Jobs : CacheStore(j)
    \/ \E j \in Jobs : JobEncode(j)
    \/ \E j \in Jobs : EncoderExit(j)

SpecCache == InitCache /\ [][NextCache]_vars

(***************************************************************************)
(* Properties of the hardware-capability cache (specification SpecCache).  *)
(***************************************************************************)
\* C12: the cache _NVENC_FORMATS is populated at most once per process even
\* when several worker threads call nvenc_supported_pix_fmts concurrently
\* for the first time: the capability query is issued at most once, and
\* once the cache is populated its value never changes.
C12_CachePopulatedOnce ==
    [][/\ queries' <= 1
       /\ nvenc_formats.cached => nvenc_formats' = nvenc_formats]_vars

====
